---- MODULE Spec2Model ----
(***************************************************************************)
(* Model of qlib/rl/neural_trading_migration/naive_config_parser.py:       *)
(* merge_a_into_b, check_file_exist, parse_backtest_config,                *)
(* _convert_all_list_to_tuple, get_backtest_config_fromfile and            *)
(* convert_instance_config.                                                *)
(*                                                                         *)
(* A Python value is a record of one field, named after its type: "int"    *)
(* and "atom" scalars, "str" (a sequence of pieces, the dot a piece of its *)
(* own), "list", "tuple" and "dict" (a function from keys to values).      *)
(***************************************************************************)
EXTENDS Integers, Sequences, FiniteSets, TLC

VARIABLES
  arg,        \* the arguments of the call under way (a record)
  ret,        \* what the call returned or raised, and the arguments afterwards
  fs,         \* the files on disk
  stack,      \* the frames of parse_backtest_config, innermost last
  sysPath,    \* sys.path
  sysModules, \* sys.modules
  tmpCount,   \* temporary directories created so far
  order,      \* the insertion order of the keys of the dicts
  opened      \* the absolute paths parse_backtest_config was called on, in order

vars == <<arg, ret, fs, stack, sysPath, sysModules, tmpCount, order, opened>>

----------------------------------------------------------------------------
(* Values *)

I(n) == [int |-> n]
A(s) == [atom |-> s]
S(q) == [str |-> q]
L(q) == [list |-> q]
T(q) == [tuple |-> q]
M(f) == [dict |-> f]

None == A("None")
NoKeys == [k \in {} |-> None]
EmptyDict == M(NoKeys)

IsDict(x) == DOMAIN x = {"dict"}
IsList(x) == DOMAIN x = {"list"}
IsTuple(x) == DOMAIN x = {"tuple"}
IsStr(x) == DOMAIN x = {"str"}

KeysOf(d) == DOMAIN d.dict

\* the elements of a list or a tuple
Elems(x) == IF IsList(x) THEN x.list ELSE x.tuple

\* d[k] = x on a dict
SetKey(d, k, x) == M([j \in KeysOf(d) \cup {k} |-> IF j = k THEN x ELSE d.dict[j]])

\* a pop that reads the key and leaves it in place
PopKeepsKey(d, k) == d

\* d.pop(k, default), as far as d is concerned
Pop(d, k) == M([j \in KeysOf(d) \ {k} |-> d.dict[j]])

\* dict.items() yields the keys in insertion order: the dicts of a behaviour
\* are all built in the order the variable order gives, KeyOrder or its reverse.
KeyOrder ==
  <<"_base_", "_delete_", "a", "b", "c", "close_cost", "exchange", "limit",
    "multiplier", "open_cost", "p", "q", "r", "type", "x", "y", "z">>

Reverse(q) == [i \in 1..Len(q) |-> q[Len(q) + 1 - i]]

Items(d) == SelectSeq(order, LAMBDA k : k \in KeysOf(d))

\* What a call returns: err = "" and val the value, or err the exception
\* raised; a is the first argument as the call leaves it.
Return(x, a) == [err |-> "", val |-> x, a |-> a]
Raise(e, a) == [err |-> e, val |-> None, a |-> a]

----------------------------------------------------------------------------
(* merge_a_into_b *)

\* b.copy(): dict and list have it, the scalars and tuple do not
HasCopy(b) == IsDict(b) \/ IsList(b)

\* k in b, k a key (a str): the lists of the model hold no strs
Contains(b, k) == IF IsDict(b) THEN k \in KeysOf(b) ELSE FALSE

RECURSIVE merge_loop(_, _, _)
RECURSIVE merge_a_into_b(_, _)

\* lines 16-22: the loop over a.items(), ks the keys still to visit, b the copy
merge_loop(a, b, ks) ==
  IF ks = <<>> THEN Return(b, a)
  ELSE LET k == Head(ks)
           v == a.dict[k]
       IN IF IsDict(v) /\ Contains(b, k)
          THEN LET v1 == Pop(v, "_delete_")
                   a1 == SetKey(a, k, v1)
                   r  == merge_a_into_b(v1, b.dict[k])
               IN IF r.err # ""
                  THEN Raise(r.err, SetKey(a1, k, r.a))
                  ELSE merge_loop(SetKey(a1, k, r.a), SetKey(b, k, r.val), Tail(ks))
          ELSE IF IsDict(b)
               THEN merge_loop(a, SetKey(b, k, v), Tail(ks))
               ELSE Raise("TypeError", a)

\* lines 14-22
merge_a_into_b(a, b) ==
  IF ~HasCopy(b) THEN Raise("AttributeError", a)
  ELSE IF ~IsDict(a) THEN Raise("AttributeError", a)
  ELSE merge_loop(a, b, Items(a))

----------------------------------------------------------------------------
(* Inputs of the merge specification *)

MaxInt == 2

Maps(K, V) == UNION {[D -> V] : D \in SUBSET K}

Ints == {I(n) : n \in 1..MaxInt}
Leaves == Ints \cup {L(<<I(1)>>)}
Marker == Maps({"_delete_"}, {I(1)})
DeepDicts == {M(f) : f \in Marker}
NestedDicts == {M(f @@ g) : f \in Maps({"p"}, Leaves \cup DeepDicts), g \in Marker}
TopDicts == {M(f) : f \in Maps({"x", "y"}, Leaves \cup NestedDicts)}

Pending == [err |-> "pending"]

InitMerge ==
  /\ arg \in {[op |-> "merge", a |-> a, b |-> b] : a \in TopDicts, b \in TopDicts}
  /\ ret = Pending
  /\ order \in {KeyOrder, Reverse(KeyOrder)}
  /\ fs = <<>> /\ stack = <<>> /\ sysPath = <<>> /\ sysModules = {} /\ tmpCount = 0
  /\ opened = <<>>

CallMerge ==
  /\ arg.op = "merge" /\ ret = Pending
  /\ ret' = merge_a_into_b(arg.a, arg.b)
  /\ UNCHANGED <<arg, fs, stack, sysPath, sysModules, tmpCount, order, opened>>

SpecMerge == InitMerge /\ [][CallMerge]_vars

----------------------------------------------------------------------------
(* Paths. A file name is <<stem, extension>>; an absolute path is the       *)
(* directory followed by the name.                                          *)

Cwd == "/cfg"

IsAbs(p) == p # <<>> /\ p[1] = Cwd

\* os.path.abspath
abspath(p) == IF IsAbs(p) THEN p ELSE <<Cwd>> \o p

\* os.path.dirname, os.path.join, os.path.splitext(...)[1]
dirname(p) == SubSeq(p, 1, Len(p) - 2)
join(d, f) == IF IsAbs(f) THEN f ELSE d \o f
splitext1(p) == p[Len(p)]
NameOf(p) == SubSeq(p, Len(p) - 1, Len(p))

\* line 35
SupportedExt == {".py", ".json", ".yaml", ".yml"}

\* os.path.isfile
isfile(p) == /\ Len(p) = 3 /\ dirname(p) = <<Cwd>>
             /\ NameOf(p) \in DOMAIN fs /\ fs[NameOf(p)].exists

\* a message that names the file without its directory
NotFoundMsgBareName(p) == <<"file \"">> \o NameOf(p) \o <<"\" does not exist">>

\* lines 25-27: the message of check_file_exist
NotFoundMsg(p) == <<"file \"">> \o p \o <<"\" does not exist">>

\* line 36
UnsupportedMsg == <<"Only py/yml/yaml/json type are supported now!">>

Failure(e, msg) == [err |-> e, val |-> None, msg |-> msg]
Success(x) == [err |-> "", val |-> x, msg |-> <<>>]

----------------------------------------------------------------------------
(* The files of the load specification *)

FileA == <<"A", ".yaml">>
FileB == <<"B", ".json">>
FileC == <<"C", ".py">>
FileD == <<"D", ".txt">>
Names == {FileA, FileB, FileC, FileD}

\* the value of a "_base_" key: a path
P(name) == [path |-> name]

BodyA == [x |-> I(1), y |-> M([p |-> I(1)])]
BodyB == [y |-> M([q |-> I(2)]), z |-> I(3)]
BodiesC == {[x |-> I(2), z |-> M([r |-> I(1)])], [x |-> I(2), y |-> I(5)]}

MaxBases == 2

\* the sequences without repetition of at most n elements of S
RECURSIVE Lists(_, _)
Lists(E, n) ==
  IF n = 0 THEN {<<>>}
  ELSE LET shorter == Lists(E, n - 1)
       IN shorter \cup {Append(q, x) : q \in shorter, x \in E}

NoRepeat(q) == \A i, j \in 1..Len(q) : q[i] = q[j] => i = j

\* what a file may hold under "_base_": nothing, one path, or a list of
\* two to MaxBases different paths
BaseValues ==
  {NoKeys} \cup {[_base_ |-> P(n)] : n \in Names}
         \cup {[_base_ |-> L([i \in 1..Len(q) |-> P(q[i])])] :
                 q \in {r \in Lists(Names, MaxBases) : Len(r) >= 2 /\ NoRepeat(r)}}

File(exists, raises, content) ==
  [exists |-> exists, raises |-> raises, content |-> content]

\* A.yaml and B.json exist and hold their bodies and any "_base_"; C.py is
\* missing, raises when imported, or binds one of its bodies; D.txt exists.
FileSystems ==
  {[n \in Names |->
      CASE n = FileA -> File(TRUE, FALSE, M(BodyA @@ ba))
        [] n = FileB -> File(TRUE, FALSE, M(BodyB @@ bb))
        [] n = FileC -> c
        [] n = FileD -> File(TRUE, FALSE, EmptyDict)] :
     ba \in BaseValues, bb \in BaseValues,
     c \in {File(FALSE, FALSE, EmptyDict), File(TRUE, TRUE, EmptyDict)}
           \cup {File(TRUE, FALSE, M(body)) : body \in BodiesC}}

\* the interpreter's recursion limit, above the depth of any chain of
\* different files
RecursionLimit == Cardinality(Names) + 1

SitePath == [dir |-> "site", n |-> 0]
TmpDir(n) == [dir |-> "tmp", n |-> n]
TmpModule(n) == [mod |-> "tmp", n |-> n]
Builtins == [mod |-> "builtins", n |-> 0]

----------------------------------------------------------------------------
(* parse_backtest_config, one frame per call under way *)

Frame(path) == [abs |-> abspath(path), pc |-> "open", config |-> None, todo |-> <<>>]

Top == stack[Len(stack)]
SetTop(f) == [stack EXCEPT ![Len(stack)] = f]

InitLoad ==
  /\ fs \in FileSystems
  /\ arg \in {[op |-> "load", path |-> n] : n \in Names}
  /\ ret = Pending
  /\ stack = <<>>
  /\ sysPath = <<SitePath>>
  /\ sysModules = {Builtins}
  /\ tmpCount = 0
  /\ order = KeyOrder
  /\ opened = <<>>

\* the caller calls parse_backtest_config(path), or
\* get_backtest_config_fromfile(path), which calls it at line 80
Call ==
  /\ arg.op \in {"load", "assemble"} /\ ret = Pending /\ stack = <<>>
  /\ stack' = <<Frame(arg.path)>>
  /\ opened' = <<abspath(arg.path)>>
  /\ UNCHANGED <<arg, ret, fs, sysPath, sysModules, tmpCount, order>>

\* lines 31-48 and 56: the checks, the temporary copy, and, for a script,
\* the push on sys.path; for the other formats the parse
Open ==
  /\ stack # <<>> /\ Top.pc = "open"
  /\ IF ~isfile(Top.abs)
     THEN /\ ret' = Failure("FileNotFoundError", NotFoundMsg(Top.abs))
          /\ stack' = <<>>
          /\ UNCHANGED <<sysPath, tmpCount>>
     ELSE IF splitext1(Top.abs) \notin SupportedExt
     THEN /\ ret' = Failure("IOError", UnsupportedMsg)
          /\ stack' = <<>>
          /\ UNCHANGED <<sysPath, tmpCount>>
     ELSE IF splitext1(Top.abs) = ".py"
     THEN /\ tmpCount' = tmpCount + 1
          /\ sysPath' = <<TmpDir(tmpCount')>> \o sysPath
          /\ stack' = SetTop([Top EXCEPT !.pc = "import"])
          /\ ret' = ret
     ELSE /\ tmpCount' = tmpCount + 1
          /\ stack' = SetTop([Top EXCEPT !.pc = "base",
                                         !.config = fs[NameOf(Top.abs)].content])
          /\ UNCHANGED <<ret, sysPath>>
  /\ UNCHANGED <<arg, fs, sysModules, order, opened>>

\* lines 49-54: import_module, sys.path.pop(0), the bindings, del sys.modules.
\* An import that raises leaves nothing in sys.modules (the import system
\* removes the module it failed to execute) and skips lines 50-54.
Import ==
  /\ stack # <<>> /\ Top.pc = "import"
  /\ IF fs[NameOf(Top.abs)].raises
     THEN /\ ret' = Failure("ExecutionError", <<>>)
          /\ stack' = <<>>
          /\ UNCHANGED <<sysPath, sysModules>>
     ELSE LET imported == sysModules \cup {TmpModule(tmpCount)}
          IN /\ sysPath' = Tail(sysPath)
             /\ sysModules' = imported \ {TmpModule(tmpCount)}
             /\ stack' = SetTop([Top EXCEPT !.pc = "base",
                                            !.config = fs[NameOf(Top.abs)].content])
             /\ ret' = ret
  /\ UNCHANGED <<arg, fs, tmpCount, order, opened>>

\* lines 58-61: pop "_base_" and wrap a lone path in a list
Bases ==
  /\ stack # <<>> /\ Top.pc = "base"
  /\ IF "_base_" \in KeysOf(Top.config)
     THEN LET base_file_name == Top.config.dict["_base_"]
          IN stack' = SetTop([Top EXCEPT
               !.pc = "loop",
               !.config = Pop(Top.config, "_base_"),
               !.todo = IF IsList(base_file_name) THEN base_file_name.list
                        ELSE <<base_file_name>>])
     ELSE stack' = SetTop([Top EXCEPT !.pc = "loop"])
  /\ UNCHANGED <<arg, ret, fs, sysPath, sysModules, tmpCount, order, opened>>

\* a descent that skips a base whose load is under way
DescendSkipsOpenFiles ==
  /\ stack # <<>> /\ Top.pc = "loop" /\ Top.todo # <<>>
  /\ LET path == join(dirname(Top.abs), Head(Top.todo).path)
     IN IF \E i \in 1..Len(stack) : stack[i].abs = abspath(path)
        THEN /\ stack' = SetTop([Top EXCEPT !.todo = Tail(Top.todo)])
             /\ opened' = opened
        ELSE /\ stack' = Append(stack, Frame(path))
             /\ opened' = Append(opened, abspath(path))
  /\ UNCHANGED <<arg, ret, fs, sysPath, sysModules, tmpCount, order>>

\* lines 63-64: the call for the next base; a call beyond the recursion
\* limit raises RecursionError
Descend ==
  /\ stack # <<>> /\ Top.pc = "loop" /\ Top.todo # <<>>
  /\ IF Len(stack) >= RecursionLimit
     THEN /\ ret' = Failure("RecursionError", <<>>)
          /\ stack' = <<>>
          /\ opened' = opened
     ELSE LET path == join(dirname(Top.abs), Head(Top.todo).path)
          IN /\ stack' = Append(stack, Frame(path))
             /\ opened' = Append(opened, abspath(path))
             /\ ret' = ret
  /\ UNCHANGED <<arg, fs, sysPath, sysModules, tmpCount, order>>

\* line 67 of a call for a base and line 65 of its caller
ReturnBase ==
  /\ Len(stack) >= 2 /\ Top.pc = "loop" /\ Top.todo = <<>>
  /\ LET caller == stack[Len(stack) - 1]
         r == merge_a_into_b(caller.config, Top.config)
     IN IF r.err # ""
        THEN /\ ret' = Failure(r.err, <<>>)
             /\ stack' = <<>>
        ELSE /\ stack' = Append(SubSeq(stack, 1, Len(stack) - 2),
                                [caller EXCEPT !.config = r.val,
                                               !.todo = Tail(caller.todo)])
             /\ ret' = ret
  /\ UNCHANGED <<arg, fs, sysPath, sysModules, tmpCount, order, opened>>

\* line 67 of the outermost call; under get_backtest_config_fromfile the
\* value becomes backtest_config (line 80)
ReturnTop ==
  /\ Len(stack) = 1 /\ Top.pc = "loop" /\ Top.todo = <<>>
  /\ IF arg.op = "assemble"
     THEN /\ stack' = SetTop([Top EXCEPT !.pc = "defaults"])
          /\ ret' = ret
     ELSE /\ ret' = Success(Top.config)
          /\ stack' = <<>>
  /\ UNCHANGED <<arg, fs, sysPath, sysModules, tmpCount, order, opened>>

Next == Call \/ Open \/ Import \/ Bases \/ Descend \/ ReturnBase \/ ReturnTop

Spec == InitLoad /\ [][Next]_vars

\* the interpreter runs the call to its end
FairSpec == Spec /\ WF_vars(Next)

----------------------------------------------------------------------------
(* _convert_all_list_to_tuple and get_backtest_config_fromfile *)

\* lines 70-76: config as the call leaves (and returns) it
RECURSIVE convert_all_list_to_tuple(_)
convert_all_list_to_tuple(config) ==
  M([k \in KeysOf(config) |->
       LET v == config.dict[k]
       IN IF IsList(v) THEN T(v.list)
          ELSE IF IsDict(v) THEN convert_all_list_to_tuple(v)
          ELSE v])

\* lines 82-89
exchange_config_default ==
  M([open_cost |-> A("0.0005"), close_cost |-> A("0.0015"), min_cost |-> A("5.0"),
     trade_unit |-> A("100.0"), cash_limit |-> None, generate_report |-> A("False")])

\* lines 93-100
backtest_config_default ==
  M([debug_single_stock |-> None, debug_single_day |-> None, concurrency |-> A("-1"),
     multiplier |-> A("1.0"), output_dir |-> A("outputs/")])

\* lines 82-103, on the mapping line 80 received
Defaults ==
  /\ Len(stack) = 1 /\ Top.pc = "defaults"
  /\ LET backtest_config == Top.config
     IN IF "exchange" \notin KeysOf(backtest_config)
        THEN ret' = Failure("KeyError", <<"exchange">>)
        ELSE LET r == merge_a_into_b(backtest_config.dict["exchange"],
                                     exchange_config_default)
             IN IF r.err # ""
                THEN ret' = Failure(r.err, <<>>)
                ELSE LET exchange == convert_all_list_to_tuple(r.val)
                         f == merge_a_into_b(SetKey(backtest_config, "exchange", exchange),
                                             backtest_config_default)
                     IN ret' = IF f.err # "" THEN Failure(f.err, <<>>)
                               ELSE Success(f.val)
  /\ stack' = <<>>
  /\ UNCHANGED <<arg, fs, sysPath, sysModules, tmpCount, order, opened>>

FileE == <<"E", ".yaml">>
FileF == <<"F", ".py">>

\* what a config may hold under "exchange": a cost that is a number or a
\* mapping, a limit that is a list, a list in a list, a tuple, or a list in
\* a nested mapping
ExchangeValues ==
  {M(c @@ l) :
     c \in Maps({"open_cost"}, {A("0.01"), M([a |-> I(1)])}),
     l \in Maps({"limit"},
                {L(<<I(n)>>) : n \in 1..MaxInt}
                  \cup {L(<<L(<<I(1)>>)>>), T(<<I(1)>>), M([limit |-> L(<<I(1)>>)])})}
    \cup {I(1)}

\* E.yaml holds any of them, or no "exchange", and may name F.py as its base
ConfigsE ==
  {M(e @@ m @@ b) :
     e \in Maps({"exchange"}, ExchangeValues),
     m \in Maps({"multiplier"}, {I(2)}),
     b \in {NoKeys, [_base_ |-> P(FileF)]}}

InitAssemble ==
  /\ fs \in {[n \in {FileE, FileF} |->
               IF n = FileE THEN File(TRUE, FALSE, c)
               ELSE File(TRUE, FALSE, M([multiplier |-> I(3), y |-> I(1)]))] :
             c \in ConfigsE}
  /\ arg = [op |-> "assemble", path |-> FileE]
  /\ ret = Pending
  /\ stack = <<>>
  /\ sysPath = <<SitePath>>
  /\ sysModules = {Builtins}
  /\ tmpCount = 0
  /\ order \in {KeyOrder, Reverse(KeyOrder)}
  /\ opened = <<>>

NextAssemble ==
  Call \/ Open \/ Import \/ Bases \/ Descend \/ ReturnBase \/ ReturnTop \/ Defaults

SpecAssemble == InitAssemble /\ [][NextAssemble]_vars

----------------------------------------------------------------------------
(* convert_instance_config *)

Dot == "."

\* a rindex that finds the first dot
rindexFirst(q) == CHOOSE i \in 1..Len(q) : q[i] = Dot /\ \A j \in 1..(i - 1) : q[j] # Dot

\* str.rindex("."), for a str that holds one
rindex(q) == CHOOSE i \in 1..Len(q) : q[i] = Dot /\ \A j \in (i + 1)..Len(q) : q[j] # Dot

\* lines 106-133; the "type" values of the model are strs
RECURSIVE convert_instance_config(_)
convert_instance_config(config) ==
  IF IsDict(config)
  THEN IF "type" \in KeysOf(config)
       THEN LET type_name == config.dict["type"].str
                idx == rindex(type_name)
                dotted == Dot \in {type_name[i] : i \in 1..Len(type_name)}
                module_path == IF dotted THEN SubSeq(type_name, 1, idx - 1) ELSE <<>>
                class_name == IF dotted THEN SubSeq(type_name, idx + 1, Len(type_name))
                              ELSE type_name
                kwargs == [k \in KeysOf(config) \ {"type"} |->
                             convert_instance_config(config.dict[k])]
            IN M([class |-> S(class_name), module_path |-> S(module_path),
                  kwargs |-> M(kwargs)])
       ELSE M([k \in KeysOf(config) |-> convert_instance_config(config.dict[k])])
  ELSE IF IsList(config)
  THEN L([i \in 1..Len(config.list) |-> convert_instance_config(config.list[i])])
  ELSE IF IsTuple(config)
  THEN T([i \in 1..Len(config.tuple) |-> convert_instance_config(config.tuple[i])])
  ELSE config

MaxStr == 3

\* the strs of at most n characters over a letter and the dot
RECURSIVE Strs(_)
Strs(n) ==
  IF n = 0 THEN {<<>>}
  ELSE LET shorter == Strs(n - 1)
       IN shorter \cup {Append(q, c) : q \in shorter, c \in {"m", Dot}}

TypeKey == {NoKeys} \cup {[type |-> S(q)] : q \in Strs(MaxStr)}

InnerDicts == {M(t @@ f) : t \in TypeKey, f \in Maps({"a"}, Ints)}
InnerValues ==
  Ints \cup InnerDicts
       \cup {L(<<x>>) : x \in Ints \cup InnerDicts}
       \cup {T(<<x>>) : x \in Ints \cup InnerDicts}
Pairs ==
  LET E == Ints \cup {M([type |-> S(<<"m", Dot, "m">>)])}
  IN {L(<<x, y>>) : x \in E, y \in E} \cup {T(<<x, y>>) : x \in E, y \in E}
OuterDicts == {M(t @@ f) : t \in TypeKey, f \in Maps({"b"}, InnerValues \cup Pairs)}

\* {type: "pkg.mod.ClassName", a: 1, b: {type: "X", c: 2}}
Example ==
  M([type |-> S(<<"pkg", Dot, "mod", Dot, "ClassName">>), a |-> I(1),
     b |-> M([type |-> S(<<"X">>), c |-> I(2)])])

InitNormalize ==
  /\ arg \in {[op |-> "normalize", config |-> c] :
               c \in InnerValues \cup Pairs \cup OuterDicts \cup {Example}}
  /\ ret = Pending
  /\ order = KeyOrder
  /\ fs = <<>> /\ stack = <<>> /\ sysPath = <<>> /\ sysModules = {} /\ tmpCount = 0
  /\ opened = <<>>

CallNormalize ==
  /\ arg.op = "normalize" /\ ret = Pending
  /\ ret' = Return(convert_instance_config(arg.config), arg.config)
  /\ UNCHANGED <<arg, fs, stack, sysPath, sysModules, tmpCount, order, opened>>

SpecNormalize == InitNormalize /\ [][CallNormalize]_vars

----------------------------------------------------------------------------
(* Claims about merge_a_into_b, checked under SpecMerge *)

Merged == arg.op = "merge" /\ ret # Pending

\* C1: merge(a, b) leaves a and b, at every nesting depth, equal to their
\* values before the call. (b is only ever read: line 15 rebinds the name to
\* a copy and line 19 hands b[k] to a call that copies it before writing.)
C1_InputsNotMutated == Merged => ret.a = arg.a

\* C3: merge has no error outcome: for every pair of mappings the call
\* returns a merged mapping.
C3_AlwaysSucceeds == Merged => (ret.err = "" /\ IsDict(ret.val))

\* C4: the result has exactly the keys of a and b together; for a key k of a
\* it holds merge(a[k], b[k]) when a[k] and b[k] are both mappings and a[k]
\* otherwise; for a key only in b it holds b[k].
C4_KeyByKey ==
  Merged =>
    /\ ret.err = "" /\ IsDict(ret.val)
    /\ KeysOf(ret.val) = KeysOf(arg.a) \cup KeysOf(arg.b)
    /\ \A k \in KeysOf(arg.a) :
         ret.val.dict[k] =
           IF k \in KeysOf(arg.b) /\ IsDict(arg.a.dict[k]) /\ IsDict(arg.b.dict[k])
           THEN merge_a_into_b(arg.a.dict[k], arg.b.dict[k]).val
           ELSE arg.a.dict[k]
    /\ \A k \in KeysOf(arg.b) \ KeysOf(arg.a) : ret.val.dict[k] = arg.b.dict[k]

\* d without the key "_delete_"
Unmarked(d) == M([j \in KeysOf(d) \ {"_delete_"} |-> d.dict[j]])

\* a with every "_delete_" key removed from its nested mappings
RECURSIVE StripNested(_)
StripNested(a) ==
  M([k \in KeysOf(a) |->
       IF IsDict(a.dict[k]) THEN StripNested(Unmarked(a.dict[k])) ELSE a.dict[k]])

\* a with "_delete_" removed from the nested mappings whose enclosing key
\* exists in b, at every depth
RECURSIVE StripWhere(_, _)
StripWhere(a, b) ==
  M([k \in KeysOf(a) |->
       IF IsDict(a.dict[k]) /\ IsDict(b) /\ k \in KeysOf(b)
       THEN StripWhere(Unmarked(a.dict[k]), b.dict[k])
       ELSE a.dict[k]])

\* the paths of the nested mappings of d that hold a "_delete_" key
RECURSIVE Markers(_)
Markers(d) ==
  UNION {{<<k>> \o p : p \in Markers(d.dict[k]) \cup
                         (IF "_delete_" \in KeysOf(d.dict[k]) THEN {<<>>} ELSE {})} :
         k \in {j \in KeysOf(d) : IsDict(d.dict[j])}}

\* C9 as claimed: merge(a, b) equals merge(a', b), a' being a without the
\* "_delete_" keys of its nested mappings, and no "_delete_" key of a nested
\* mapping of a appears in the result, whether or not the enclosing key
\* exists in b.
C9_MarkerDiscarded ==
  Merged =>
    LET r == merge_a_into_b(StripNested(arg.a), arg.b)
    IN /\ ret.err = r.err /\ ret.val = r.val
       /\ ret.err = "" /\ IsDict(ret.val) => Markers(ret.val) \subseteq Markers(arg.b)

\* C9 as amended: the marker is discarded exactly where the enclosing key
\* exists in b. merge(a, b) has the outcome of merge(a'', b), a'' being a
\* without the "_delete_" keys of the nested mappings whose enclosing key
\* exists in b; the markers of the result are markers of b or markers of a''
\* (nested mappings copied whole because b lacks their key), and every marker
\* of a'' is in the result.
C9_MarkerDiscardedWhereKeyInB ==
  Merged =>
    LET a2 == StripWhere(arg.a, arg.b)
        r  == merge_a_into_b(a2, arg.b)
    IN /\ ret.err = r.err /\ ret.val = r.val
       /\ ret.err = "" /\ IsDict(ret.val) =>
            /\ Markers(ret.val) \subseteq Markers(arg.b) \cup Markers(a2)
            /\ Markers(a2) \subseteq Markers(ret.val)
            /\ \A k \in KeysOf(arg.a) :
                 IsDict(arg.a.dict[k]) /\ k \in KeysOf(arg.b) /\ IsDict(arg.b.dict[k]) =>
                   ("_delete_" \in KeysOf(ret.val.dict[k]) <=> "_delete_" \in KeysOf(arg.b.dict[k]))

\* a merge that succeeded on an a with a marked nested mapping under a key of
\* b and another under a key b lacks
C9_Witness ==
  /\ Merged /\ ret.err = ""
  /\ \E k \in KeysOf(arg.a) \cap KeysOf(arg.b) :
       /\ IsDict(arg.a.dict[k]) /\ IsDict(arg.b.dict[k])
       /\ "_delete_" \in KeysOf(arg.a.dict[k])
       /\ "_delete_" \notin KeysOf(ret.val.dict[k])
  /\ \E k \in KeysOf(arg.a) \ KeysOf(arg.b) :
       IsDict(arg.a.dict[k]) /\ "_delete_" \in KeysOf(ret.val.dict[k])

----------------------------------------------------------------------------
(* Claims about parse_backtest_config, checked under Spec and FairSpec *)

Loaded == arg.op = "load" /\ ret # Pending

Range(q) == {q[i] : i \in 1..Len(q)}

\* the extensions the claims name
ClaimedExts == {".py", ".json", ".yaml", ".yml"}

\* the names a file lists under "_base_", in order
BaseList(n) ==
  LET c == fs[n].content
  IN IF "_base_" \notin KeysOf(c) THEN <<>>
     ELSE IF IsList(c.dict["_base_"])
          THEN [i \in 1..Len(c.dict["_base_"].list) |-> c.dict["_base_"].list[i].path]
          ELSE <<c.dict["_base_"].path>>

Missing(n) == ~fs[n].exists
Unsupported(n) == fs[n].exists /\ n[2] \notin ClaimedExts
Readable(n) == fs[n].exists /\ n[2] \in ClaimedExts /\ ~fs[n].raises

Refs(n) == IF Readable(n) THEN Range(BaseList(n)) ELSE {}

\* the files reached from a set of files through "_base_"
RECURSIVE ReachFrom(_)
ReachFrom(F) ==
  LET G == F \cup UNION {Refs(n) : n \in F}
  IN IF G = F THEN F ELSE ReachFrom(G)

Reached == ReachFrom({arg.path})

Acyclic == \A n \in Reached : n \notin ReachFrom(Refs(n))

IsSubSeq(part, whole) ==
  \E i \in 1..(Len(whole) - Len(part) + 1) :
    SubSeq(whole, i, i + Len(part) - 1) = part

\* C2: after a load the module search path and the module registry are what
\* they were before the call, whether the import succeeded or raised.
C2_ImportStateRestored ==
  Loaded => (sysPath = <<SitePath>> /\ sysModules = {Builtins})

\* the deep merge of the claims: key by key, hi over lo
RECURSIVE Over(_, _)
Over(hi, lo) ==
  M([k \in KeysOf(hi) \cup KeysOf(lo) |->
       IF k \in KeysOf(hi) /\ k \in KeysOf(lo) /\ IsDict(hi.dict[k]) /\ IsDict(lo.dict[k])
       THEN Over(hi.dict[k], lo.dict[k])
       ELSE IF k \in KeysOf(hi) THEN hi.dict[k] ELSE lo.dict[k]])

\* the mapping the claims give a file: its own keys over its bases, an
\* earlier base over a later one
RECURSIVE Expected(_)
RECURSIVE OverBases(_, _)
OverBases(acc, bases) ==
  IF bases = <<>> THEN acc
  ELSE OverBases(Over(acc, Expected(Head(bases))), Tail(bases))
Expected(n) == OverBases(Pop(fs[n].content, "_base_"), BaseList(n))

\* C5: for a file with a "_base_", load returns a mapping without "_base_"
\* in which the file's own keys win over every base and base Bi over Bj for
\* i < j, nested mappings merged key by key (every file reached exists, has a
\* supported extension and imports, and no file includes itself).
C5_BasePriority ==
  (Loaded /\ BaseList(arg.path) # <<>> /\ Acyclic /\ \A n \in Reached : Readable(n)) =>
    /\ ret.err = "" /\ IsDict(ret.val)
    /\ "_base_" \notin KeysOf(ret.val)
    /\ ret.val = Expected(arg.path)

\* C6 as claimed: a mapping only when every file reached exists with a
\* supported extension; a missing file gives NotFound with its absolute path
\* in the message; a file with another extension gives UnsupportedFormat with
\* the extension in the message; an error returns no mapping.
C6_ErrorsNameTheFile ==
  Loaded =>
    /\ ret.err = "" => \A n \in Reached : ~Missing(n) /\ ~Unsupported(n)
    /\ ret.err = "FileNotFoundError" =>
         \E n \in Reached : Missing(n) /\ IsSubSeq(<<Cwd>> \o n, ret.msg)
    /\ ret.err = "IOError" =>
         \E n \in Reached : Unsupported(n) /\ n[2] \in Range(ret.msg)
    /\ Missing(arg.path) => ret.err = "FileNotFoundError"
    /\ Unsupported(arg.path) => ret.err = "IOError"
    /\ ret.err # "" => ret.val = None

\* C6 as amended: as claimed, but the unsupported-format error carries the
\* fixed text that lists the supported types and does not name the file's
\* extension; the failing file is the last one opened (the first failure met
\* ends the call).
C6_ErrorsFailFast ==
  Loaded =>
    /\ ret.err = "" => \A n \in Reached : ~Missing(n) /\ ~Unsupported(n)
    /\ ret.err = "FileNotFoundError" =>
         \E n \in Reached :
           /\ Missing(n) /\ IsSubSeq(<<Cwd>> \o n, ret.msg)
           /\ opened[Len(opened)] = <<Cwd>> \o n
    /\ ret.err = "IOError" =>
         \E n \in Reached :
           /\ Unsupported(n) /\ opened[Len(opened)] = <<Cwd>> \o n
           /\ ret.msg = <<"Only py/yml/yaml/json type are supported now!">>
           /\ n[2] \notin Range(ret.msg)
    /\ Missing(arg.path) =>
         ret.err = "FileNotFoundError" /\ IsSubSeq(<<Cwd>> \o arg.path, ret.msg)
    /\ Unsupported(arg.path) => ret.err = "IOError"
    /\ ret.err # "" => ret.val = None

\* a load that failed on a missing base, not the file it was called on
C6_Witness ==
  /\ Loaded /\ ret.err = "FileNotFoundError"
  /\ Len(opened) >= 2 /\ ~Missing(arg.path)

\* the paths a load without failure opens: depth-first, bases in list order
RECURSIVE Preorder(_)
RECURSIVE PreorderAll(_)
PreorderAll(bases) ==
  IF bases = <<>> THEN <<>>
  ELSE Preorder(Head(bases)) \o PreorderAll(Tail(bases))
Preorder(n) == <<<<Cwd>> \o n>> \o PreorderAll(BaseList(n))

\* C10: the load ends whenever the "_base_" references reached are acyclic,
\* having opened the files depth-first in list order; with a cycle among
\* them no cycle is detected and the load never returns a mapping.
C10_Termination ==
  /\ (arg.op = "load" /\ Acyclic) ~> (Loaded /\ ret.err \notin {"RecursionError"})
  /\ [](Loaded /\ Acyclic /\ ret.err = "" => opened = Preorder(arg.path))
  /\ [](arg.op = "load" /\ ~Acyclic => ret.err # "")

\* a load on a cycle of files that ended at the recursion limit, having
\* opened one of them again and again
C10_Witness ==
  /\ Loaded /\ ~Acyclic /\ ret.err = "RecursionError"
  /\ Len(opened) > Cardinality(Names)

----------------------------------------------------------------------------
(* Claim about get_backtest_config_fromfile, checked under SpecAssemble *)

RECURSIVE NoList(_)
NoList(x) ==
  /\ ~IsList(x)
  /\ IsDict(x) => \A k \in KeysOf(x) : NoList(x.dict[k])
  /\ IsTuple(x) => \A i \in 1..Len(x.tuple) : NoList(x.tuple[i])

\* x with every list in it, at any depth, made a tuple
RECURSIVE AllTuples(_)
AllTuples(x) ==
  IF IsDict(x) THEN M([k \in KeysOf(x) |-> AllTuples(x.dict[k])])
  ELSE IF IsList(x) \/ IsTuple(x) THEN T([i \in 1..Len(Elems(x)) |-> AllTuples(Elems(x)[i])])
  ELSE x

\* C7: for a loaded config with an "exchange" mapping the result's
\* "exchange" holds every default exchange key, with the config's value where
\* the config sets it and the default otherwise, and no list remains anywhere
\* inside it: every list, at any depth, has become a tuple.
C7_ExchangeDefaultsNoLists ==
  LET loaded == Expected(arg.path)
  IN (/\ arg.op = "assemble" /\ ret # Pending
      /\ "exchange" \in KeysOf(loaded) /\ IsDict(loaded.dict["exchange"])) =>
       /\ ret.err = "" /\ IsDict(ret.val)
       /\ "exchange" \in KeysOf(ret.val) /\ IsDict(ret.val.dict["exchange"])
       /\ LET given == loaded.dict["exchange"]
              exchange == ret.val.dict["exchange"]
          IN /\ \A k \in {"open_cost", "close_cost", "min_cost", "trade_unit",
                          "cash_limit", "generate_report"} :
                  /\ k \in KeysOf(exchange)
                  /\ exchange.dict[k] = IF k \in KeysOf(given) THEN AllTuples(given.dict[k])
                                     ELSE exchange_config_default.dict[k]
             /\ NoList(exchange)

----------------------------------------------------------------------------
(* Claim about convert_instance_config, checked under SpecNormalize *)

HasDot(q) == \E i \in 1..Len(q) : q[i] = Dot

\* r is what the claim makes of x
RECURSIVE Normalized(_, _)
Normalized(x, r) ==
  IF IsDict(x) /\ "type" \in KeysOf(x)
  THEN /\ IsDict(r) /\ KeysOf(r) = {"class", "module_path", "kwargs"}
       /\ LET type_name == x.dict["type"].str
              class == r.dict["class"]
              module_path == r.dict["module_path"]
              kwargs == r.dict["kwargs"]
          IN /\ IsStr(class) /\ IsStr(module_path) /\ ~HasDot(class.str)
             /\ IF HasDot(type_name)
                THEN module_path.str \o <<Dot>> \o class.str = type_name
                ELSE module_path.str = <<>> /\ class.str = type_name
             /\ IsDict(kwargs) /\ KeysOf(kwargs) = KeysOf(x) \ {"type"}
             /\ \A k \in KeysOf(kwargs) : Normalized(x.dict[k], kwargs.dict[k])
  ELSE IF IsDict(x)
  THEN /\ IsDict(r) /\ KeysOf(r) = KeysOf(x)
       /\ \A k \in KeysOf(x) : Normalized(x.dict[k], r.dict[k])
  ELSE IF IsList(x) \/ IsTuple(x)
  THEN /\ DOMAIN r = DOMAIN x /\ Len(Elems(r)) = Len(Elems(x))
       /\ \A i \in 1..Len(Elems(x)) : Normalized(Elems(x)[i], Elems(r)[i])
  ELSE r = x

\* {class: "ClassName", module_path: "pkg.mod",
\*  kwargs: {a: 1, b: {class: "X", module_path: "", kwargs: {c: 2}}}}
ExampleNormalized ==
  M([class |-> S(<<"ClassName">>), module_path |-> S(<<"pkg", Dot, "mod">>),
     kwargs |-> M([a |-> I(1),
                   b |-> M([class |-> S(<<"X">>), module_path |-> S(<<>>),
                            kwargs |-> M([c |-> I(2)])])])])

\* C8: normalize replaces each mapping that has a "type" key, at any depth
\* and inside any list or tuple, by {class: the text after the last dot,
\* module_path: the text before it, or "" without a dot, kwargs: the other
\* keys normalized}, and leaves keys, sequence order, sequence kind and
\* scalars of everything else unchanged; the example gives the stated result.
C8_Normalize ==
  (arg.op = "normalize" /\ ret # Pending) =>
    /\ ret.err = ""
    /\ Normalized(arg.config, ret.val)
    /\ arg.config = Example => ret.val = ExampleNormalized

\* a normalized mapping with a twice-dotted type, holding a list whose
\* element is a mapping with a type
C8_Witness ==
  /\ arg.op = "normalize" /\ ret # Pending
  /\ IsDict(arg.config) /\ KeysOf(arg.config) = {"type", "b"}
  /\ arg.config.dict["type"].str = <<"m", Dot, Dot>>
  /\ IsList(arg.config.dict["b"])
  /\ IsDict(arg.config.dict["b"].list[1])
  /\ "type" \in KeysOf(arg.config.dict["b"].list[1])
  /\ ret.val.dict["kwargs"].dict["b"].list[1].dict["module_path"] = S(<<"m">>)

====
